---- MODULE Spec2Model ----
(***************************************************************************)
(* A model of the ShivyC parser (src/parser.py): the recursive-descent     *)
(* matchers expect_main / expect_statement / expect_return /               *)
(* expect_expression, the error log self.errors, the selection of the      *)
(* error to raise in parse, and the phrasing of errors in make_error.      *)
(*                                                                         *)
(* One parse call is unfolded into steps, one per matcher body segment     *)
(* between two calls, so that the error log and the indices can be         *)
(* observed while the matchers run.                                        *)
(***************************************************************************)
EXTENDS Integers, Sequences, FiniteSets, TLC

VARIABLES tokens,      \* the argument of the running (or next) parse call
          errors,      \* Parser.errors: sequence of [error, index]
          pc,          \* position of the control flow inside parse
          index,       \* expect_main's local variable index
          prev_index,  \* expect_main's local variable prev_index
          nodes,       \* expect_main's local variable nodes
          r_index,     \* expect_return's local variable index
          ret,         \* the (node, index) pair returned by the last matcher
          outcome,     \* how the parse call ended
          calls        \* number of parse calls started on this Parser

vars == <<tokens, errors, pc, index, prev_index, nodes, r_index, ret,
          outcome, calls>>

(***************************************************************************)
(* Bounds of the model.                                                    *)
(***************************************************************************)
\* leading complete `return NUMBER ;` statements of an input body
MaxStmts == 2
\* arbitrary tokens that follow the leading statements of an input body
MaxTail == 4
\* arbitrary tokens that follow a broken main header
MaxBrokenTail == 1
\* parse calls made on one Parser instance (reuse specification)
MaxCalls == 2
\* arbitrary body tokens of the inputs of the reuse specification
MaxReuseTail == 2

(***************************************************************************)
(* Token kinds (module token_kinds) and tokens (produced by the lexer).    *)
(***************************************************************************)
int_kw == "int_kw"
main == "main"
open_paren == "open_paren"
close_paren == "close_paren"
open_brack == "open_brack"
close_brack == "close_brack"
return_kw == "return_kw"
semicolon == "semicolon"
number == "number"
identifier == "identifier"

\* Python's None for a file name / a line number / an AST node
NoFile == "None"
NoLine == 0
NoNode == [type |-> "None"]

\* A token: kind, content, file_name, line_num.
Token(kind, content, file_name, line_num) ==
    [kind |-> kind, content |-> content,
     file_name |-> file_name, line_num |-> line_num]

\* The error value raised to the caller of parse.
CompilerError(descrip, file_name, line_num) ==
    [descrip |-> descrip, file_name |-> file_name, line_num |-> line_num]

\* AST nodes.
MainNode(ns) == [type |-> "MainNode", nodes |-> ns]
ReturnNode(n) == [type |-> "ReturnNode", return_value |-> n]
NumberNode(t) == [type |-> "NumberNode", number |-> t]

(***************************************************************************)
(* Inputs.  A lexeme is a kind with a text; the lexer puts lexeme number i *)
(* of the source on line i of file "main.c", so that a location names one  *)
(* token of the input.                                                     *)
(***************************************************************************)
Lx(kind, content) == [kind |-> kind, content |-> content]

HeaderLexemes == << Lx(int_kw, "int"), Lx(main, "main"), Lx(open_paren, "("),
                    Lx(close_paren, ")"), Lx(open_brack, "{") >>

\* The lexemes whose kind a matcher of the body tests for, and an
\* identifier standing for every kind no body matcher tests for.
BodyLexemes == { Lx(return_kw, "return"), Lx(number, "4"), Lx(number, "15"),
                 Lx(semicolon, ";"), Lx(close_brack, "}"),
                 Lx(identifier, "extra") }

AllLexemes == BodyLexemes \cup { HeaderLexemes[i] : i \in 1..5 }

Min(a, b) == IF a < b THEN a ELSE b

\* the first k elements of s (all of s when it is shorter)
Take(s, k) == SubSeq(s, 1, Min(k, Len(s)))

SeqsUpTo(S, n) == UNION { [1..k -> S] : k \in 0..n }

\* s complete statements: return 4 ; return 15 ; return 4 ; ...
RECURSIVE Statements(_)
Statements(s) ==
    IF s = 0 THEN << >>
    ELSE Statements(s - 1) \o
         << Lx(return_kw, "return"),
            Lx(number, IF s % 2 = 1 THEN "4" ELSE "15"),
            Lx(semicolon, ";") >>

\* header, s statements, any tail
GoodHeaderInputs(maxTail) ==
    { HeaderLexemes \o Statements(s) \o t :
        s \in 0..MaxStmts, t \in SeqsUpTo(BodyLexemes, maxTail) }

\* every prefix of: the header with one lexeme replaced, then a short tail
BrokenHeaderInputs ==
    UNION { { Take([HeaderLexemes EXCEPT ![i] = l] \o t, k) :
                l \in AllLexemes \ {HeaderLexemes[i]},
                t \in SeqsUpTo(BodyLexemes, MaxBrokenTail),
                k \in 0..(5 + MaxBrokenTail) } : i \in 1..5 }

\* every proper prefix of the header (the empty source included)
ShortInputs == { Take(HeaderLexemes, k) : k \in 0..4 }

Lex(ls) == [i \in 1..Len(ls) |-> Token(ls[i].kind, ls[i].content, "main.c", i)]

Inputs == { Lex(ls) : ls \in GoodHeaderInputs(MaxTail) \cup BrokenHeaderInputs
                              \cup ShortInputs }

\* the inputs of the calls made on a reused Parser
ReuseLexemes == { Lx(return_kw, "return"), Lx(number, "4"),
                  Lx(close_brack, "}") }

ReuseInputs ==
    { Lex(ls) : ls \in { HeaderLexemes \o t :
                            t \in SeqsUpTo(ReuseLexemes, MaxReuseTail) }
                      \cup ShortInputs }

(***************************************************************************)
(* Utility functions of the parser.                                        *)
(***************************************************************************)
AT == 1
GOT == 2
AFTER == 3

\* tokens[index:] of Python, for 0 <= index
Slice(toks, i) == SubSeq(toks, i + 1, Len(toks))

\* toks[i] of Python (0-based), for 0 <= i < len(toks)
At(toks, i) == toks[i + 1]

\* match_tokens: len(kinds_expected) when the first tokens have the expected
\* kinds, 0 (or False, which is 0 as a number and falsy) otherwise
match_tokens(toks, kinds_expected) ==
    IF Len(toks) < Len(kinds_expected) THEN 0
    ELSE IF \A i \in 1..Min(Len(toks), Len(kinds_expected)) :
                kinds_expected[i] = toks[i].kind
         THEN Len(kinds_expected)
         ELSE 0

\* expect_main, lines 52-54
kinds_before == << int_kw, main, open_paren, close_paren, open_brack >>

\* make_error with the GOT form reading the token before the offending one
make_error_got_previous(message, idx, toks, message_type) ==
    IF Len(toks) = 0
    THEN CompilerError(message \o " at beginning of source", NoFile, NoLine)
    ELSE LET i == IF idx >= Len(toks) THEN Len(toks)
                  ELSE IF idx <= 0 THEN 0 ELSE idx
             mt == IF idx >= Len(toks) THEN AFTER
                   ELSE IF idx <= 0 /\ message_type = AFTER THEN GOT
                   ELSE message_type
             j == IF i > 0 THEN i - 1 ELSE 0
         IN  IF mt = AT
             THEN CompilerError(message \o " at '" \o At(toks, i).content \o "'",
                                At(toks, i).file_name, At(toks, i).line_num)
             ELSE IF mt = GOT
             THEN CompilerError(message \o ", got '" \o At(toks, j).content \o "'",
                                At(toks, j).file_name, At(toks, j).line_num)
             ELSE CompilerError(message \o " after '" \o At(toks, i - 1).content \o "'",
                                At(toks, i - 1).file_name, At(toks, i - 1).line_num)

\* make_error without the case of the empty token list: the index is
\* clamped and the message gets no position
make_error_no_empty_case(message, idx, toks, message_type) ==
    IF Len(toks) = 0
    THEN CompilerError(message, NoFile, NoLine)
    ELSE LET i == IF idx >= Len(toks) THEN Len(toks)
                  ELSE IF idx <= 0 THEN 0 ELSE idx
             mt == IF idx >= Len(toks) THEN AFTER
                   ELSE IF idx <= 0 /\ message_type = AFTER THEN GOT
                   ELSE message_type
         IN  IF mt = AT
             THEN CompilerError(message \o " at '" \o At(toks, i).content \o "'",
                                At(toks, i).file_name, At(toks, i).line_num)
             ELSE IF mt = GOT
             THEN CompilerError(message \o ", got '" \o At(toks, i).content \o "'",
                                At(toks, i).file_name, At(toks, i).line_num)
             ELSE CompilerError(message \o " after '" \o At(toks, i - 1).content \o "'",
                                At(toks, i - 1).file_name, At(toks, i - 1).line_num)

\* make_error: the CompilerError for a message at an index, phrased AT, GOT
\* or AFTER
make_error(message, idx, toks, message_type) ==
    IF Len(toks) = 0
    THEN CompilerError(message \o " at beginning of source", NoFile, NoLine)
    ELSE LET i == IF idx >= Len(toks) THEN Len(toks)
                  ELSE IF idx <= 0 THEN 0 ELSE idx
             mt == IF idx >= Len(toks) THEN AFTER
                   ELSE IF idx <= 0 /\ message_type = AFTER THEN GOT
                   ELSE message_type
         IN  IF mt = AT
             THEN CompilerError(message \o " at '" \o At(toks, i).content \o "'",
                                At(toks, i).file_name, At(toks, i).line_num)
             ELSE IF mt = GOT
             THEN CompilerError(message \o ", got '" \o At(toks, i).content \o "'",
                                At(toks, i).file_name, At(toks, i).line_num)
             ELSE CompilerError(message \o " after '" \o At(toks, i - 1).content \o "'",
                                At(toks, i - 1).file_name, At(toks, i - 1).line_num)

\* add_error: the log after appending the error made for (message, index)
add_error(log, message, idx, toks, message_type) ==
    Append(log, [error |-> make_error(message, idx, toks, message_type),
                 index |-> idx])

\* the (None, 0) pair a failing matcher returns
Failure == [node |-> NoNode, index |-> 0]
Success(n, i) == [node |-> n, index |-> i]

\* Python's truth value of a node: None is falsy, a node object is truthy
Truthy(n) == n # NoNode

\* an insertion that puts a record before the records of equal index: the
\* sort it gives is not stable
RECURSIVE Insert_before_equals(_, _)
Insert_before_equals(sortedLog, rec) ==
    IF sortedLog = << >> THEN << rec >>
    ELSE IF sortedLog[Len(sortedLog)].index < rec.index
         THEN Append(sortedLog, rec)
         ELSE Append(Insert_before_equals(
                         SubSeq(sortedLog, 1, Len(sortedLog) - 1), rec),
                     sortedLog[Len(sortedLog)])

\* sorted(errors, key=lambda error: error[1]): a stable sort by index
RECURSIVE Insert(_, _)
Insert(sortedLog, rec) ==
    IF sortedLog = << >> THEN << rec >>
    ELSE IF sortedLog[Len(sortedLog)].index <= rec.index
         THEN Append(sortedLog, rec)
         ELSE Append(Insert(SubSeq(sortedLog, 1, Len(sortedLog) - 1), rec),
                     sortedLog[Len(sortedLog)])

RECURSIVE sorted(_)
sorted(log) ==
    IF log = << >> THEN << >>
    ELSE Insert(sorted(SubSeq(log, 1, Len(log) - 1)), log[Len(log)])

\* sorted(self.errors, key=...)[-1][0]
SelectError(log) == sorted(log)[Len(log)].error

(***************************************************************************)
(* Outcomes of a parse call.                                               *)
(***************************************************************************)
NoError == CompilerError("", NoFile, NoLine)
Pending == [kind |-> "pending", node |-> NoNode, error |-> NoError]
Returned(n) == [kind |-> "returned", node |-> n, error |-> NoError]
Raised(e) == [kind |-> "CompilerError", node |-> NoNode, error |-> e]
\* tokens[index] with index = len(tokens): the interpreter raises IndexError
IndexErrorRaised == [kind |-> "IndexError", node |-> NoNode, error |-> NoError]

(***************************************************************************)
(* The state after Parser(): an empty log; the tokens of the first call    *)
(* are chosen here.                                                        *)
(***************************************************************************)
InitWith(inputs) ==
    /\ tokens \in inputs
    /\ errors = << >>
    /\ pc = "idle"
    /\ index = 0
    /\ prev_index = 0
    /\ nodes = << >>
    /\ r_index = 0
    /\ ret = Failure
    /\ outcome = Pending
    /\ calls = 0

Init == InitWith(Inputs)

InitReuse == InitWith(ReuseInputs)

\* parse, line 37: the call of expect_main(tokens, 0) on a fresh Parser
parse ==
    /\ pc = "idle"
    /\ calls = 0
    /\ pc' = "expect_main"
    /\ index' = 0
    /\ calls' = 1
    /\ UNCHANGED <<tokens, errors, prev_index, nodes, r_index, ret, outcome>>

\* parse, line 37, called once more on the same Parser with other tokens
\* after an earlier call ended: nothing between the entry of parse and the
\* call of expect_main touches self.errors
parse_again ==
    /\ pc = "done"
    /\ calls < MaxCalls
    /\ tokens' \in ReuseInputs
    /\ pc' = "expect_main"
    /\ index' = 0
    /\ prev_index' = 0
    /\ nodes' = << >>
    /\ r_index' = 0
    /\ ret' = Failure
    /\ outcome' = Pending
    /\ calls' = calls + 1
    /\ UNCHANGED errors

\* expect_main, lines 52-62: the main header
expect_main ==
    /\ pc = "expect_main"
    /\ LET match_start == match_tokens(Slice(tokens, index), kinds_before)
       IN  IF match_start # 0
           THEN /\ index' = index + match_start
                /\ nodes' = << >>
                /\ pc' = "loop"
                /\ UNCHANGED <<errors, ret>>
           ELSE /\ errors' = add_error(errors, "expected main function starting",
                                       index, tokens, AT)
                /\ ret' = Failure
                /\ pc' = "parse_ret"
                /\ UNCHANGED <<index, nodes>>
    /\ UNCHANGED <<tokens, prev_index, r_index, outcome, calls>>

\* expect_main, lines 63-65, and expect_statement, line 81: one more
\* statement is attempted, by a call of expect_return(tokens, index)
expect_statement ==
    /\ pc = "loop"
    /\ prev_index' = index
    /\ r_index' = index
    /\ pc' = "expect_return"
    /\ UNCHANGED <<tokens, errors, index, nodes, ret, outcome, calls>>

\* expect_return, lines 85-91: the return keyword
expect_return ==
    /\ pc = "expect_return"
    /\ IF Len(tokens) > r_index /\ At(tokens, r_index).kind = return_kw
       THEN /\ r_index' = r_index + 1
            /\ pc' = "expect_expression"
            /\ UNCHANGED <<errors, ret>>
       ELSE /\ errors' = add_error(errors, "expected return keyword",
                                   r_index, tokens, GOT)
            /\ ret' = Failure
            /\ pc' = "statement_ret"
            /\ UNCHANGED r_index
    /\ UNCHANGED <<tokens, index, prev_index, nodes, outcome, calls>>

\* expect_expression, lines 107-110
expect_expression ==
    /\ pc = "expect_expression"
    /\ IF r_index >= Len(tokens)
       THEN \* tokens[index] is out of range
            /\ outcome' = IndexErrorRaised
            /\ pc' = "done"
            /\ UNCHANGED <<errors, ret>>
       ELSE IF At(tokens, r_index).kind = number
       THEN /\ ret' = Success(NumberNode(At(tokens, r_index)), r_index + 1)
            /\ pc' = "expect_semicolon"
            /\ UNCHANGED <<errors, outcome>>
       ELSE /\ errors' = add_error(errors, "expected number",
                                   r_index, tokens, GOT)
            /\ ret' = Failure
            /\ pc' = "expect_semicolon"
            /\ UNCHANGED outcome
    /\ UNCHANGED <<tokens, index, prev_index, nodes, r_index, calls>>

\* expect_return recording an error of its own for the failed expression
after_failed_expression_recording(log, idx, toks) ==
    add_error(log, "expected expression", idx, toks, GOT)

\* expect_return, lines 92-93: the log when the expression did not match
after_failed_expression(log, idx, toks) == log

\* expect_return, lines 91-100: the expression's result and the semicolon
expect_semicolon ==
    /\ pc = "expect_semicolon"
    /\ IF ~Truthy(ret.node)
       THEN /\ errors' = after_failed_expression(errors, ret.index, tokens)
            /\ ret' = Failure
            /\ r_index' = ret.index
       ELSE IF Len(tokens) > ret.index /\ At(tokens, ret.index).kind = semicolon
       THEN /\ ret' = Success(ReturnNode(ret.node), ret.index + 1)
            /\ r_index' = ret.index + 1
            /\ UNCHANGED errors
       ELSE /\ errors' = add_error(errors, "expected semicolon",
                                   ret.index, tokens, AFTER)
            /\ ret' = Failure
            /\ r_index' = ret.index
    /\ pc' = "statement_ret"
    /\ UNCHANGED <<tokens, index, prev_index, nodes, outcome, calls>>

\* expect_main going on at the index the failed attempt returned
Rewind_missing(prev, returned) == returned

\* the index expect_main continues at after a failed statement attempt
Rewind(prev, returned) == prev

\* expect_main, lines 65-70: the result of the statement attempt
statement_ret ==
    /\ pc = "statement_ret"
    /\ IF ~Truthy(ret.node)
       THEN /\ index' = Rewind(prev_index, ret.index)
            /\ pc' = "closing_brace"
            /\ UNCHANGED nodes
       ELSE /\ index' = ret.index
            /\ nodes' = Append(nodes, ret.node)
            /\ pc' = "loop"
    /\ UNCHANGED <<tokens, errors, prev_index, r_index, ret, outcome, calls>>

\* expect_main, lines 72-78: the closing brace
closing_brace ==
    /\ pc = "closing_brace"
    /\ IF Len(tokens) > index /\ At(tokens, index).kind = close_brack
       THEN /\ ret' = Success(MainNode(nodes), index + 1)
            /\ index' = index + 1
            /\ UNCHANGED errors
       ELSE /\ errors' = add_error(errors, "expected closing brace",
                                   index, tokens, GOT)
            /\ ret' = Failure
            /\ UNCHANGED index
    /\ pc' = "parse_ret"
    /\ UNCHANGED <<tokens, prev_index, nodes, r_index, outcome, calls>>

\* parse without the check for tokens left after the main function
parse_result_no_trailing_check(log, toks, r) ==
    IF ~Truthy(r.node) THEN Raised(SelectError(log))
    ELSE Returned(r.node)

\* parse raising the furthest logged error for tokens left after main
parse_result_trailing_from_log(log, toks, r) ==
    IF ~Truthy(r.node) THEN Raised(SelectError(log))
    ELSE IF Slice(toks, r.index) # << >>
         THEN Raised(SelectError(log))
         ELSE Returned(r.node)

\* parse, lines 37-47: what parse does with expect_main's result
parse_result(log, toks, r) ==
    IF ~Truthy(r.node) THEN Raised(SelectError(log))
    ELSE IF Slice(toks, r.index) # << >>
         THEN Raised(make_error("unexpected token", r.index, toks, AT))
         ELSE Returned(r.node)

parse_ret ==
    /\ pc = "parse_ret"
    /\ outcome' = parse_result(errors, tokens, ret)
    /\ pc' = "done"
    /\ UNCHANGED <<tokens, errors, index, prev_index, nodes, r_index, ret, calls>>

Next ==
    \/ parse
    \/ expect_main
    \/ expect_statement
    \/ expect_return
    \/ expect_expression
    \/ expect_semicolon
    \/ statement_ret
    \/ closing_brace
    \/ parse_ret

Spec == Init /\ [][Next]_vars

\* one Parser instance used for several parse calls
NextReuse == Next \/ parse_again

SpecReuse == InitReuse /\ [][NextReuse]_vars

(***************************************************************************)
(* The grammar of section 6, stated on the kinds of a token sequence, and  *)
(* the tree it describes.                                                  *)
(***************************************************************************)
HasHeader(toks) ==
    /\ Len(toks) >= 5
    /\ \A i \in 1..5 : toks[i].kind = kinds_before[i]

\* group g (1, 2, ...) of the body is a complete `return NUMBER ;`
IsGroup(toks, g) ==
    /\ Len(toks) >= 5 + 3 * g
    /\ toks[3 * g + 3].kind = return_kw
    /\ toks[3 * g + 4].kind = number
    /\ toks[3 * g + 5].kind = semicolon

\* the header followed by n complete groups (and anything after them)
HasGroups(toks, n) == HasHeader(toks) /\ \A g \in 1..n : IsGroup(toks, g)

IsProgramOf(toks, n) ==
    /\ HasGroups(toks, n)
    /\ Len(toks) = 5 + 3 * n + 1
    /\ toks[Len(toks)].kind = close_brack

IsProgram(toks) == \E n \in 0..Len(toks) : IsProgramOf(toks, n)

\* the statements of the first n groups, in source order
GroupNodes(toks, n) ==
    [g \in 1..n |-> ReturnNode(NumberNode(toks[3 * g + 4]))]

ProgramRoot(toks) == MainNode(GroupNodes(toks, (Len(toks) - 6) \div 3))

\* C1: a finished parse has returned a root exactly when the tokens are
\* `int main ( ) {`, zero or more groups `return NUMBER ;`, `}` and nothing
\* else, and the root then holds one ReturnNode per group, in source order,
\* each wrapping the NumberNode of the group's number token.
C1_ReturnsExactlyPrograms ==
    pc = "done" =>
        /\ (outcome.kind = "returned") <=> IsProgram(tokens)
        /\ outcome.kind = "returned" => outcome.node = ProgramRoot(tokens)

C1_Witness ==
    /\ pc = "done"
    /\ outcome.kind = "returned"
    /\ Len(outcome.node.nodes) = 2
    /\ outcome.node.nodes[1] # outcome.node.nodes[2]

\* C2: every parse call ends by returning a root or by raising one syntax
\* error (a CompilerError), and in no other way.
C2_ReturnsOrRaisesSyntaxError ==
    pc = "done" => outcome.kind \in {"returned", "CompilerError"}

\* the record of the log with the greatest index, the last one among equals
Furthest(log) ==
    CHOOSE k \in 1..Len(log) :
        /\ \A j \in 1..Len(log) : log[j].index <= log[k].index
        /\ \A j \in (k + 1)..Len(log) : log[j].index < log[k].index

MainFailed == pc = "done" /\ outcome.kind = "CompilerError" /\ ~Truthy(ret.node)

\* C3: when expect_main fails, the error raised is the error of the record
\* with the greatest index in the log, in whatever order the records were
\* appended, and the last appended one among the records with that index.
C3_FurthestErrorLastAmongEquals ==
    MainFailed => outcome.error = errors[Furthest(errors)].error

\* the furthest record was appended before a nearer one
C3_Witness ==
    /\ MainFailed
    /\ Len(errors) = 2
    /\ errors[1].index > errors[2].index
    /\ errors[1].error # errors[2].error
    /\ outcome.error = errors[1].error

\* two records share the greatest index
C3_WitnessTie ==
    /\ MainFailed
    /\ Len(errors) = 2
    /\ errors[1].index = errors[2].index
    /\ errors[1].error # errors[2].error
    /\ outcome.error = errors[2].error

\* header, n complete statements, a return keyword, then a token that is
\* not a number
ReturnThenNonNumber(toks, n) ==
    /\ HasGroups(toks, n)
    /\ Len(toks) >= 5 + 3 * n + 2
    /\ toks[3 * n + 6].kind = return_kw
    /\ toks[3 * n + 7].kind # number

\* C4: after `int main ( ) {`, complete statements and a return keyword
\* followed by a token t that is not a number, parse raises
\* "expected number, got '<text of t>'" with the file name and the line
\* number of t.
C4_ExpectedNumberSurfaces ==
    \A n \in 0..Len(tokens) :
        pc = "done" /\ ReturnThenNonNumber(tokens, n) =>
            outcome = Raised(CompilerError(
                "expected number, got '" \o tokens[3 * n + 7].content \o "'",
                tokens[3 * n + 7].file_name, tokens[3 * n + 7].line_num))

C4_Witness ==
    /\ pc = "done"
    /\ ReturnThenNonNumber(tokens, 1)
    /\ Len(tokens) > 10
    /\ outcome.error.descrip = "expected number, got ';'"

\* header, n complete statements, a return keyword, end of input
EndsAfterReturn(toks, n) ==
    /\ HasGroups(toks, n)
    /\ Len(toks) = 5 + 3 * n + 1
    /\ toks[Len(toks)].kind = return_kw

\* C5: when the tokens end right after a return keyword, the expression
\* matcher fails with "expected number" and parse raises that error in the
\* AFTER form, referencing the return keyword and carrying its location.
C5_EndAfterReturnRaisesAfterForm ==
    \A n \in 0..Len(tokens) :
        pc = "done" /\ EndsAfterReturn(tokens, n) =>
            outcome = Raised(CompilerError(
                "expected number after 'return'",
                tokens[Len(tokens)].file_name, tokens[Len(tokens)].line_num))

MainSucceeded == Truthy(ret.node) /\ ret.node.type = "MainNode"

\* C6: when expect_main succeeds with next index k < len(tokens), parse
\* returns no root and raises "unexpected token at '<text of tokens[k]>'"
\* with the location of tokens[k]; the error is not one of the log.
C6_TrailingTokenError ==
    pc = "done" /\ MainSucceeded /\ ret.index < Len(tokens) =>
        /\ outcome = Raised(CompilerError(
               "unexpected token at '" \o At(tokens, ret.index).content \o "'",
               At(tokens, ret.index).file_name, At(tokens, ret.index).line_num))
        /\ \A i \in 1..Len(errors) : errors[i].error # outcome.error

C6_Witness ==
    /\ pc = "done"
    /\ MainSucceeded
    /\ ret.index < Len(tokens)
    /\ Len(ret.node.nodes) >= 1
    /\ Len(errors) >= 1
    /\ outcome.error.descrip = "unexpected token at 'extra'"

\* C7: parsing the empty token sequence raises "expected main function
\* starting at beginning of source" without file name and line number.
C7_EmptyInput ==
    pc = "done" /\ tokens = << >> =>
        outcome = Raised(CompilerError(
            "expected main function starting at beginning of source",
            NoFile, NoLine))

C7_Witness == pc = "done" /\ tokens = << >> /\ outcome.kind = "CompilerError"

\* C8: the log is reset per parse call: when a parse call starts on a
\* Parser, also on one that ran parse before, the log holds no record.
C8_LogEmptyWhenParseStarts ==
    pc = "expect_main" => errors = << >>

\* the index at which the statement attempted at p stops matching
MismatchIndex(toks, p) ==
    IF ~(Len(toks) > p /\ At(toks, p).kind = return_kw) THEN p
    ELSE IF ~(Len(toks) > p + 1 /\ At(toks, p + 1).kind = number) THEN p + 1
    ELSE p + 2

\* C9: a failure signalled by a matcher is recorded exactly once, with the
\* index of the mismatch: when the expression matcher, or the return and
\* statement matchers, signal the failure that ends the statement loop, the
\* log holds one record; when expect_main signals its own failure the log
\* holds that one more record (none for the header when it did not match a
\* statement); a matcher failing through its sub-matcher adds none.
C9_OneRecordPerFailure ==
    /\ pc = "expect_semicolon" /\ ~Truthy(ret.node) =>
           /\ Len(errors) = 1
           /\ errors[1].index = r_index
           /\ r_index = MismatchIndex(tokens, prev_index)
    /\ pc = "statement_ret" /\ ~Truthy(ret.node) =>
           /\ Len(errors) = 1
           /\ errors[1].index = MismatchIndex(tokens, prev_index)
    /\ pc = "parse_ret" /\ ~Truthy(ret.node) =>
           IF HasHeader(tokens)
           THEN /\ Len(errors) = 2
                /\ errors[1].index = MismatchIndex(tokens, prev_index)
                /\ errors[2].index = prev_index
           ELSE /\ Len(errors) = 1
                /\ errors[1].index = 0

\* the return matcher fails because the expression matcher failed
C9_Witness ==
    /\ pc = "statement_ret"
    /\ ~Truthy(ret.node)
    /\ Len(errors) = 1
    /\ errors[1].index = prev_index + 1
    /\ Len(nodes) = 1

\* C10: when a statement attempt started at p fails, the closing brace is
\* looked for at p, the node list holds the completely matched statements
\* only, and when the brace is there expect_main returns p + 1.
C10_FailedStatementRewinds ==
    /\ pc = "closing_brace" =>
           /\ index = prev_index
           /\ prev_index = 5 + 3 * Len(nodes)
           /\ HasGroups(tokens, Len(nodes))
           /\ nodes = GroupNodes(tokens, Len(nodes))
    /\ pc = "parse_ret" /\ HasHeader(tokens) =>
           IF Truthy(ret.node)
           THEN /\ ret.index = prev_index + 1
                /\ At(tokens, prev_index).kind = close_brack
                /\ ret.node = MainNode(GroupNodes(tokens, Len(nodes)))
           ELSE /\ errors[Len(errors)].index = prev_index
                /\ ~(Len(tokens) > prev_index
                       /\ At(tokens, prev_index).kind = close_brack)

\* the failed attempt had consumed `return NUMBER`
C10_Witness ==
    /\ pc = "closing_brace"
    /\ r_index = prev_index + 2
    /\ Len(nodes) = 1
    /\ index = prev_index
====
